---- MODULE Spec2Model ----
(***************************************************************************)
(* Dependency-aware task-readiness engine of the Figma migration tools     *)
(* (packages/registry/scripts/build-registry.ts, lines 336-1790): the      *)
(* source-snapshot cache, the persisted migration state file, the          *)
(* readiness propagator and the lifecycle operations                       *)
(* migrationInit / Progress / Next / Start / Complete / Skip.              *)
(***************************************************************************)
EXTENDS Integers, Sequences, FiniteSets, TLC

\* ------------------------------------------------------------------------
\* Bounds
\* ------------------------------------------------------------------------
\* Number of writes of the state file a behaviour may perform (the value of
\* the clock that stamps createdAt / updatedAt / completedAt).
MaxClock == 3

\* Largest limit argument handed to migrationNext.
MaxLimit == 1

\* Largest number of children of the definition root handed to the
\* dependency builder on its own.
MaxWidth == 2

\* Largest depth counter handed to the definition formatter.
MaxDepth == 5

\* Number of writes of the state file in a run of the caller's loop
\* (initialize, then start and complete of each task).
MaxSteps == 7

\* ------------------------------------------------------------------------
\* Sequence helpers (Array.prototype.filter / map / includes / slice)
\* ------------------------------------------------------------------------
Range(s) == {s[i] : i \in 1..Len(s)}

Includes(s, x) == \E i \in 1..Len(s) : s[i] = x

Filter(s, Test(_)) == SelectSeq(s, Test)

\* slice keeping one element too many
SliceOneMore(s, n) == SubSeq(s, 1, IF n + 1 < Len(s) THEN n + 1 ELSE Len(s))

Slice(s, n) == SubSeq(s, 1, IF n < Len(s) THEN n ELSE Len(s))

\* Set.prototype.add on an insertion-ordered set kept as a sequence
SetAdd(s, x) == IF Includes(s, x) THEN s ELSE Append(s, x)

\* ------------------------------------------------------------------------
\* Source tree model
\* ------------------------------------------------------------------------
Leaf(type, id) == [type |-> type, id |-> id, componentId |-> "", children |-> <<>>]

Instance(id, componentId) ==
    [type |-> "INSTANCE", id |-> id, componentId |-> componentId, children |-> <<>>]

Frame(id, children) ==
    [type |-> "FRAME", id |-> id, componentId |-> "", children |-> children]

\* a definition of null (component defined in an external library)
NullNode == [type |-> "NULL", id |-> "", componentId |-> "", children |-> <<>>]

CompData(id, name, instanceCount, definition) ==
    [id |-> id, name |-> name, instanceCount |-> instanceCount, definition |-> definition]

FrameData(id, name, componentsUsed) ==
    [id |-> id, name |-> name, componentsUsed |-> componentsUsed]

\* A <- B chain; B reaches A through a nested frame, twice, and instantiates
\* itself as well; page P uses both.
SnapChain ==
    [components |-> <<
        CompData("A", "Icon", 2, Frame("a0", <<Leaf("TEXT", "a1")>>)),
        CompData("B", "Button", 5,
                 Frame("b0", <<Frame("b1", <<Instance("b2", "A"), Instance("b3", "A")>>),
                               Instance("b4", "B")>>)) >>,
     frames |-> << FrameData("P", "Home", <<"A", "B">>) >>]

\* A has two dependents of equal instance count; A has no definition.
SnapFan ==
    [components |-> <<
        CompData("A", "Icon", 1, NullNode),
        CompData("B", "Button", 3, Frame("b0", <<Instance("b1", "A")>>)),
        CompData("C", "Card", 3, Frame("c0", <<Frame("c1", <<Instance("c2", "A")>>)>>)) >>,
     frames |-> <<>>]

\* A and B have no dependencies and are listed in the reverse order of their
\* instance counts; C instantiates both.
SnapJoin ==
    [components |-> <<
        CompData("A", "Icon", 2, Frame("a0", <<>>)),
        CompData("B", "Button", 5, Frame("b0", <<Leaf("TEXT", "b1")>>)),
        CompData("C", "Card", 1,
                 Frame("c0", <<Instance("c1", "A"), Frame("c2", <<Instance("c3", "B")>>)>>)) >>,
     frames |-> <<>>]

\* A and B instantiate each other; page P uses B.
SnapCycle ==
    [components |-> <<
        CompData("A", "Icon", 4, Frame("a0", <<Instance("a1", "B")>>)),
        CompData("B", "Button", 2, Frame("b0", <<Instance("b1", "A")>>)) >>,
     frames |-> << FrameData("P", "Home", <<"B">>) >>]

\* A instantiates X, which is no component of the file; page P uses X too,
\* page Q uses no component.
SnapExternal ==
    [components |-> <<
        CompData("A", "Icon", 4, Frame("a0", <<Instance("a1", "X")>>)) >>,
     frames |-> << FrameData("P", "Legacy", <<"X">>),
                   FrameData("Q", "Blank", <<>>) >>]

\* pages only
SnapNoComponents ==
    [components |-> <<>>,
     frames |-> << FrameData("P", "Home", <<>>) >>]

\* an empty file
SnapEmpty == [components |-> <<>>, frames |-> <<>>]

Snapshots == {SnapChain, SnapFan, SnapJoin, SnapCycle, SnapExternal, SnapNoComponents, SnapEmpty}

\* identifiers handed to the operations on a file: those of its components
\* and frames, and "Z", which names no task of any snapshot
Ids(data) ==
    {data.components[i].id : i \in 1..Len(data.components)}
    \cup {data.frames[i].id : i \in 1..Len(data.frames)}
    \cup {"Z"}

OutputPaths == {"x.tsx"}

SkipReasons == {"icon library"}

NextTypes == {"component", "page", "any"}

\* ------------------------------------------------------------------------
\* Persisted state: lookups
\* ------------------------------------------------------------------------
\* a lookup that falls back on the first entry when the key is absent
IndexOfOrFirst(entries, id) ==
    IF \E i \in 1..Len(entries) : entries[i].figmaId = id
    THEN CHOOSE i \in 1..Len(entries) : entries[i].figmaId = id
    ELSE IF entries # <<>> THEN 1 ELSE 0

\* index of the entry with key id in an insertion-ordered map, 0 if absent
IndexOf(entries, id) ==
    IF \E i \in 1..Len(entries) : entries[i].figmaId = id
    THEN CHOOSE i \in 1..Len(entries) : entries[i].figmaId = id
    ELSE 0

Has(entries, id) == IndexOf(entries, id) # 0

Get(entries, id) == entries[IndexOf(entries, id)]

KeysOf(entries) == {entries[i].figmaId : i \in 1..Len(entries)}

\* ------------------------------------------------------------------------
\* computeStats
\* ------------------------------------------------------------------------
IsDone(t) == t.status = "done"

IsSkipped(t) == t.status = "skipped"

\* computeStats counting only done components as finished
computeStatsDoneOnly(state) ==
    LET components == state.components
        pages == state.pages
        completedComponents == Len(Filter(components, IsDone))
        skippedComponents == Len(Filter(components, IsSkipped))
        completedPages == Len(Filter(pages, IsDone))
        allComponentsDone == completedComponents = Len(components)
        allPagesDone == completedPages = Len(pages)
        phase == IF allComponentsDone /\ ~allPagesDone THEN "pages"
                 ELSE IF allComponentsDone /\ allPagesDone THEN "done"
                 ELSE "components"
    IN [totalComponents |-> Len(components),
        completedComponents |-> completedComponents,
        skippedComponents |-> skippedComponents,
        totalPages |-> Len(pages),
        completedPages |-> completedPages,
        phase |-> phase]

computeStats(state) ==
    LET components == state.components
        pages == state.pages
        completedComponents == Len(Filter(components, IsDone))
        skippedComponents == Len(Filter(components, IsSkipped))
        completedPages == Len(Filter(pages, IsDone))
        allComponentsDone == completedComponents + skippedComponents = Len(components)
        allPagesDone == completedPages = Len(pages)
        phase == IF allComponentsDone /\ ~allPagesDone THEN "pages"
                 ELSE IF allComponentsDone /\ allPagesDone THEN "done"
                 ELSE "components"
    IN [totalComponents |-> Len(components),
        completedComponents |-> completedComponents,
        skippedComponents |-> skippedComponents,
        totalPages |-> Len(pages),
        completedPages |-> completedPages,
        phase |-> phase]

\* ------------------------------------------------------------------------
\* updateDependencyReadiness (the readiness propagator)
\* ------------------------------------------------------------------------
\* doneOrSkipped leaving the skipped components out
doneOnly(state) ==
    {c.figmaId : c \in {x \in Range(state.components) : x.status = "done"}}

doneOrSkipped(state) ==
    {c.figmaId : c \in {x \in Range(state.components) :
                            x.status = "done" \/ x.status = "skipped"}}

\* a propagator that also takes a dependency for satisfied when it is
\* flagged ready itself
updateDependencyReadinessCascading(state) ==
    LET dos == doneOrSkipped(state)
                 \cup {c.figmaId : c \in {x \in Range(state.components) : x.dependenciesReady}}
        comp(c) == [c EXCEPT !.dependenciesReady =
                        Len(c.dependencies) = 0
                        \/ \A i \in 1..Len(c.dependencies) : c.dependencies[i] \in dos]
        page(p) ==
            LET ready == \A i \in 1..Len(p.componentsUsed) : p.componentsUsed[i] \in dos
            IN [p EXCEPT !.componentsReady = ready,
                         !.status = IF p.status = "blocked" /\ ready
                                    THEN "pending" ELSE p.status]
    IN [state EXCEPT
            !.components = [i \in 1..Len(state.components) |-> comp(state.components[i])],
            !.pages = [i \in 1..Len(state.pages) |-> page(state.pages[i])]]

\* a propagator that sends a page whose components are not ready back to
\* blocked
updateDependencyReadinessDemotes(state) ==
    LET dos == doneOrSkipped(state)
        comp(c) == [c EXCEPT !.dependenciesReady =
                        Len(c.dependencies) = 0
                        \/ \A i \in 1..Len(c.dependencies) : c.dependencies[i] \in dos]
        page(p) ==
            LET ready == \A i \in 1..Len(p.componentsUsed) : p.componentsUsed[i] \in dos
            IN [p EXCEPT !.componentsReady = ready,
                         !.status = IF ready
                                    THEN (IF p.status = "blocked" THEN "pending" ELSE p.status)
                                    ELSE "blocked"]
    IN [state EXCEPT
            !.components = [i \in 1..Len(state.components) |-> comp(state.components[i])],
            !.pages = [i \in 1..Len(state.pages) |-> page(state.pages[i])]]

\* a propagator that sets the flags and leaves every page status alone
updateDependencyReadinessFlagsOnly(state) ==
    LET dos == doneOrSkipped(state)
        comp(c) == [c EXCEPT !.dependenciesReady =
                        Len(c.dependencies) = 0
                        \/ \A i \in 1..Len(c.dependencies) : c.dependencies[i] \in dos]
        page(p) ==
            LET ready == \A i \in 1..Len(p.componentsUsed) : p.componentsUsed[i] \in dos
            IN [p EXCEPT !.componentsReady = ready]
    IN [state EXCEPT
            !.components = [i \in 1..Len(state.components) |-> comp(state.components[i])],
            !.pages = [i \in 1..Len(state.pages) |-> page(state.pages[i])]]

\* a propagator that takes an id that names no component task for satisfied
updateDependencyReadinessUnknownIsReady(state) ==
    LET known == KeysOf(state.components)
        dos == doneOrSkipped(state)
        comp(c) == [c EXCEPT !.dependenciesReady =
                        Len(c.dependencies) = 0
                        \/ \A i \in 1..Len(c.dependencies) :
                              c.dependencies[i] \in dos \/ c.dependencies[i] \notin known]
        page(p) ==
            LET ready == \A i \in 1..Len(p.componentsUsed) :
                            p.componentsUsed[i] \in dos \/ p.componentsUsed[i] \notin known
            IN [p EXCEPT !.componentsReady = ready,
                         !.status = IF p.status = "blocked" /\ ready
                                    THEN "pending" ELSE p.status]
    IN [state EXCEPT
            !.components = [i \in 1..Len(state.components) |-> comp(state.components[i])],
            !.pages = [i \in 1..Len(state.pages) |-> page(state.pages[i])]]

\* a propagator that takes a dependency for satisfied as soon as it names a
\* component task, whatever its status
updateDependencyReadinessKnownIsReady(state) ==
    LET dos == doneOrSkipped(state)
        known == KeysOf(state.components)
        comp(c) == [c EXCEPT !.dependenciesReady =
                        Len(c.dependencies) = 0
                        \/ \A i \in 1..Len(c.dependencies) : c.dependencies[i] \in known]
        page(p) ==
            LET ready == \A i \in 1..Len(p.componentsUsed) : p.componentsUsed[i] \in dos
            IN [p EXCEPT !.componentsReady = ready,
                         !.status = IF p.status = "blocked" /\ ready
                                    THEN "pending" ELSE p.status]
    IN [state EXCEPT
            !.components = [i \in 1..Len(state.components) |-> comp(state.components[i])],
            !.pages = [i \in 1..Len(state.pages) |-> page(state.pages[i])]]

updateDependencyReadiness(state) ==
    LET dos == doneOrSkipped(state)
        comp(c) == [c EXCEPT !.dependenciesReady =
                        Len(c.dependencies) = 0
                        \/ \A i \in 1..Len(c.dependencies) : c.dependencies[i] \in dos]
        page(p) ==
            LET ready == \A i \in 1..Len(p.componentsUsed) : p.componentsUsed[i] \in dos
            IN [p EXCEPT !.componentsReady = ready,
                         !.status = IF p.status = "blocked" /\ ready
                                    THEN "pending" ELSE p.status]
    IN [state EXCEPT
            !.components = [i \in 1..Len(state.components) |-> comp(state.components[i])],
            !.pages = [i \in 1..Len(state.pages) |-> page(state.pages[i])]]

\* ------------------------------------------------------------------------
\* buildComponentDependencies / findInstanceDependencies
\* ------------------------------------------------------------------------
RECURSIVE findInstanceDependencies(_, _, _)
findInstanceDependencies(nodes, deps, selfId) ==
    IF nodes = <<>> THEN deps
    ELSE LET node == Head(nodes)
             own == IF node.type = "INSTANCE" /\ node.componentId # ""
                       /\ node.componentId # selfId
                    THEN SetAdd(deps, node.componentId)
                    ELSE deps
             below == IF node.type = "NULL" THEN deps
                      ELSE findInstanceDependencies(node.children, own, selfId)
         IN findInstanceDependencies(Tail(nodes), below, selfId)

\* a builder that looks at the children of the definition root only
buildComponentDependenciesDirectOnly(compData) ==
    LET children == compData.definition.children
    IN IF compData.definition.type # "NULL"
       THEN findInstanceDependencies(
                [i \in 1..Len(children) |-> [children[i] EXCEPT !.children = <<>>]],
                <<>>, compData.id)
       ELSE <<>>

\* the dependency list of one entry of data.components
buildComponentDependencies(compData) ==
    IF compData.definition.type # "NULL"
    THEN findInstanceDependencies(compData.definition.children, <<>>, compData.id)
    ELSE <<>>

\* ------------------------------------------------------------------------
\* createInitialState
\* ------------------------------------------------------------------------
\* createInitialState without the propagator run
createInitialStateNoPropagation(data, fileKey, fileUrl, now) ==
    LET component(cd) ==
            LET deps == buildComponentDependencies(cd)
            IN [figmaId |-> cd.id,
                name |-> cd.name,
                status |-> "pending",
                dependencies |-> deps,
                dependenciesReady |-> (Len(deps) = 0),
                instanceCount |-> cd.instanceCount,
                outputPath |-> "",
                skipReason |-> "",
                completedAt |-> 0]
        page(fd) ==
            [figmaId |-> fd.id,
             frameName |-> fd.name,
             status |-> "blocked",
             componentsUsed |-> fd.componentsUsed,
             componentsReady |-> FALSE,
             outputPath |-> "",
             completedAt |-> 0]
        components == [i \in 1..Len(data.components) |-> component(data.components[i])]
        pages == [i \in 1..Len(data.frames) |-> page(data.frames[i])]
        state == [figmaFileKey |-> fileKey,
                  figmaFileUrl |-> fileUrl,
                  createdAt |-> now,
                  updatedAt |-> now,
                  stats |-> [totalComponents |-> Len(components),
                             completedComponents |-> 0,
                             skippedComponents |-> 0,
                             totalPages |-> Len(pages),
                             completedPages |-> 0,
                             phase |-> "components"],
                  components |-> components,
                  pages |-> pages]
        ready == state
    IN [ready EXCEPT !.stats = computeStats(ready)]

createInitialState(data, fileKey, fileUrl, now) ==
    LET component(cd) ==
            LET deps == buildComponentDependencies(cd)
            IN [figmaId |-> cd.id,
                name |-> cd.name,
                status |-> "pending",
                dependencies |-> deps,
                dependenciesReady |-> (Len(deps) = 0),
                instanceCount |-> cd.instanceCount,
                outputPath |-> "",
                skipReason |-> "",
                completedAt |-> 0]
        page(fd) ==
            [figmaId |-> fd.id,
             frameName |-> fd.name,
             status |-> "blocked",
             componentsUsed |-> fd.componentsUsed,
             componentsReady |-> FALSE,
             outputPath |-> "",
             completedAt |-> 0]
        components == [i \in 1..Len(data.components) |-> component(data.components[i])]
        pages == [i \in 1..Len(data.frames) |-> page(data.frames[i])]
        state == [figmaFileKey |-> fileKey,
                  figmaFileUrl |-> fileUrl,
                  createdAt |-> now,
                  updatedAt |-> now,
                  stats |-> [totalComponents |-> Len(components),
                             completedComponents |-> 0,
                             skippedComponents |-> 0,
                             totalPages |-> Len(pages),
                             completedPages |-> 0,
                             phase |-> "components"],
                  components |-> components,
                  pages |-> pages]
        ready == updateDependencyReadiness(state)
    IN [ready EXCEPT !.stats = computeStats(ready)]

\* ------------------------------------------------------------------------
\* State
\* ------------------------------------------------------------------------
VARIABLES
    source,           \* the design file served by the remote API
    cachedFigmaData,  \* module-level in-memory cache: <<>> (null) or <<data>>
    diskCache,        \* .figma-cache.json: <<>> (absent) or <<data>>
    file,             \* .figma-migration.json: <<>> (absent) or <<state>>
    clock,            \* time of the latest write
    last              \* the latest invocation and what it yielded

vars == <<source, cachedFigmaData, diskCache, file, clock, last>>

\* the `message` of each error response, under the name the design gives it
NotInitialized == "No migration found"

AlreadyInitialized == "Migration already exists"

NoSourceData == "No Figma data available"

NoFigmaData == "No Figma data"

ItemNotFound == "Item not found"

AlreadyProcessed == "Already processed"

DependenciesNotReady == "Dependencies not ready"

ComponentsNotReady == "Components not ready"

InvalidOperation == "Cannot skip pages"

FetchFailed == "Failed to fetch Figma file"

\* what one invocation yielded: the statuses in order, the error message
\* of an error response and the payload of a success response
Response(op, id, yields, error) ==
    [op |-> op, id |-> id, yields |-> yields, error |-> error,
     newReady |-> <<>>, listed |-> <<>>, items |-> <<>>, remaining |-> 0,
     limit |-> 0, type |-> "", phase |-> "", currentTask |-> "", kind |-> ""]

Failure(op, id, error) == Response(op, id, <<"pending", "error">>, error)

Success(op, id) == Response(op, id, <<"pending", "success">>, "")

\* readMigrationState answering a missing file with an empty state
readMigrationStateOrEmpty ==
    IF file = <<>>
    THEN <<createInitialState([components |-> <<>>, frames |-> <<>>], "unknown", "", 0)>>
    ELSE file

\* readMigrationState: null when the file cannot be read
readMigrationState == file

\* the memory cache alone, without the fallback on the disk cache
getCachedFigmaData == cachedFigmaData

\* ensureFigmaData: the memory cache, else loadFigmaDataFromDisk, which
\* fills the memory cache
ensureFigmaData == IF cachedFigmaData # <<>> THEN cachedFigmaData ELSE diskCache

\* writeMigrationState stamps updatedAt and replaces the whole file
writeMigrationState(state, now) == <<[state EXCEPT !.updatedAt = now]>>

\* a sort that puts the later of two equal instance counts first
RECURSIVE sortTiesReversed(_)
sortTiesReversed(s) ==
    IF s = <<>> THEN <<>>
    ELSE LET sorted == sortTiesReversed(SubSeq(s, 1, Len(s) - 1))
             x == s[Len(s)]
             IsBefore(y) == y.instanceCount > x.instanceCount
             IsAfter(y) == y.instanceCount <= x.instanceCount
         IN Filter(sorted, IsBefore) \o <<x>> \o Filter(sorted, IsAfter)

\* Array.prototype.sort((a, b) => b.instanceCount - a.instanceCount), stable
RECURSIVE sortByInstanceCount(_)
sortByInstanceCount(s) ==
    IF s = <<>> THEN <<>>
    ELSE LET sorted == sortByInstanceCount(SubSeq(s, 1, Len(s) - 1))
             x == s[Len(s)]
             IsBefore(y) == y.instanceCount >= x.instanceCount
             IsAfter(y) == y.instanceCount < x.instanceCount
         IN Filter(sorted, IsBefore) \o <<x>> \o Filter(sorted, IsAfter)

\* the filter of the ready components without the test of dependenciesReady
IsPendingComponent(c) == c.status = "pending"

IsReadyComponent(c) == c.status = "pending" /\ c.dependenciesReady

IsReadyPage(p) == p.status = "pending" /\ p.componentsReady

IsNotReadyComponent(c) == c.status = "pending" /\ ~c.dependenciesReady

Names(s) == [i \in 1..Len(s) |-> s[i].name]

FigmaIds(s) == [i \in 1..Len(s) |-> s[i].figmaId]

Init ==
    /\ source \in Snapshots
    /\ cachedFigmaData = <<>>
    /\ diskCache = <<>>
    /\ file = <<>>
    /\ clock = 0
    /\ last = Response("none", "", <<>>, "")

\* figmaFetch: the extracted structure is cached in memory, then saved to
\* disk; the request or the save may throw
Fetch ==
    \E outcome \in {"request failed", "save failed", "saved"} :
        /\ cachedFigmaData' = IF outcome = "request failed"
                              THEN cachedFigmaData ELSE <<source>>
        /\ diskCache' = IF outcome = "saved" THEN <<source>> ELSE diskCache
        /\ last' = IF outcome = "saved" THEN Success("fetch", "")
                   ELSE Failure("fetch", "", FetchFailed)
        /\ UNCHANGED <<source, file, clock>>

\* a new process: module-level state starts over, the files stay
Restart ==
    /\ cachedFigmaData' = <<>>
    /\ last' = Response("restart", "", <<>>, "")
    /\ UNCHANGED <<source, diskCache, file, clock>>

\* initError without the check for an existing state file
initErrorNoExistingCheck(data, existingState) ==
    IF data = <<>>
    THEN NoSourceData
    ELSE ""

\* the guards of migrationInit, in the order of the code: the error it
\* yields, "" when the state is to be created
initError(data, existingState) ==
    IF data = <<>>
    THEN NoSourceData
    ELSE IF existingState # <<>>
    THEN AlreadyInitialized
    ELSE ""

\* migrationInit.execute
MigrationInit ==
    \E fileUrl \in {""} :
        LET data == ensureFigmaData
            existingState == readMigrationState
            now == clock + 1
            state == createInitialState(data[1], "unknown", fileUrl, now)
            readyComponents == sortByInstanceCount(Filter(state.components, IsReadyComponent))
        IN /\ cachedFigmaData' = data
           /\ IF initError(data, existingState) # ""
              THEN /\ last' = Failure("init", "", initError(data, existingState))
                   /\ UNCHANGED <<file, clock>>
              ELSE /\ clock < MaxClock
                   /\ file' = writeMigrationState(state, now)
                   /\ clock' = now
                   /\ last' = [Success("init", "") EXCEPT
                                  !.items = Names(Slice(readyComponents, 5)),
                                  !.remaining = Len(readyComponents)]
           /\ UNCHANGED <<source, diskCache>>

\* migrationProgress saving the state it has read
MigrationProgressSaves ==
    /\ readMigrationState # <<>>
    /\ clock < MaxClock
    /\ cachedFigmaData' = ensureFigmaData
    /\ file' = writeMigrationState(readMigrationState[1], clock + 1)
    /\ clock' = clock + 1
    /\ last' = [Success("progress", "") EXCEPT !.phase = readMigrationState[1].stats.phase]
    /\ UNCHANGED <<source, diskCache>>

\* migrationProgress.execute
MigrationProgress ==
    LET state == readMigrationState[1]
        components == state.components
        pages == state.pages
        IsInProgress(t) == t.status = "in_progress"
        inProgress == Filter(components, IsInProgress)
        inProgressPage == Filter(pages, IsInProgress)
        readyComponents == sortByInstanceCount(Filter(components, IsReadyComponent))
        readyPages == Filter(pages, IsReadyPage)
        nextUp == IF state.stats.phase = "components"
                  THEN Names(Slice(readyComponents, 3))
                  ELSE IF state.stats.phase = "pages"
                  THEN [i \in 1..Len(Slice(readyPages, 3)) |-> readyPages[i].frameName]
                  ELSE <<>>
    IN IF readMigrationState = <<>>
       THEN /\ last' = Failure("progress", "", NotInitialized)
            /\ UNCHANGED <<source, cachedFigmaData, diskCache, file, clock>>
       ELSE /\ cachedFigmaData' = ensureFigmaData
            /\ last' = [Success("progress", "") EXCEPT
                           !.phase = state.stats.phase,
                           !.currentTask = IF inProgress # <<>> THEN inProgress[1].name
                                           ELSE IF inProgressPage # <<>>
                                           THEN inProgressPage[1].frameName
                                           ELSE "",
                           !.items = nextUp]
            /\ UNCHANGED <<source, diskCache, file, clock>>

\* nextItems listing the ready pages for type any in every phase
nextItemsAnyPhase(state, type) ==
    LET readyComponents == sortByInstanceCount(Filter(state.components, IsReadyComponent))
        readyPages == Filter(state.pages, IsReadyPage)
        componentItems ==
            IF type = "any" \/ type = "component"
            THEN [i \in 1..Len(readyComponents) |->
                     [type |-> "component", id |-> readyComponents[i].figmaId]]
            ELSE <<>>
        pageItems ==
            IF type = "any" \/ type = "page"
            THEN [i \in 1..Len(readyPages) |->
                     [type |-> "page", id |-> readyPages[i].figmaId]]
            ELSE <<>>
    IN componentItems \o pageItems

\* the items migrationNext collects before the cap
nextItems(state, type) ==
    LET readyComponents == sortByInstanceCount(Filter(state.components, IsReadyComponent))
        readyPages == Filter(state.pages, IsReadyPage)
        componentItems ==
            IF type = "any" \/ type = "component"
            THEN [i \in 1..Len(readyComponents) |->
                     [type |-> "component", id |-> readyComponents[i].figmaId]]
            ELSE <<>>
        pageItems ==
            IF (type = "any" /\ state.stats.phase = "pages") \/ type = "page"
            THEN [i \in 1..Len(readyPages) |->
                     [type |-> "page", id |-> readyPages[i].figmaId]]
            ELSE <<>>
    IN componentItems \o pageItems

\* migrationNext.execute
MigrationNext ==
    \E limit \in 0..MaxLimit, type \in NextTypes :
        LET state == readMigrationState[1]
            items == nextItems(state, type)
            remaining == Len(items) - limit
        IN /\ IF readMigrationState = <<>>
              THEN last' = [Failure("next", "", NotInitialized) EXCEPT
                               !.limit = limit, !.type = type]
              ELSE last' = [Success("next", "") EXCEPT
                               !.limit = limit, !.type = type,
                               !.phase = state.stats.phase,
                               !.items = Slice(items, limit),
                               !.remaining = IF remaining > 0 THEN remaining ELSE 0]
           /\ UNCHANGED <<source, cachedFigmaData, diskCache, file, clock>>

\* state.components[id].<field> = value
SetComponent(state, id, change(_)) ==
    [state EXCEPT !.components[IndexOf(state.components, id)] = change(@)]

SetPage(state, id, change(_)) ==
    [state EXCEPT !.pages[IndexOf(state.pages, id)] = change(@)]

\* startComponentError letting a done or skipped component start again
startComponentErrorNoProcessedGuard(component) ==
    IF ~component.dependenciesReady
    THEN DependenciesNotReady
    ELSE ""

\* startComponentError with a guard against a second task in progress
startComponentErrorOneAtATime(component) ==
    IF component.status = "done" \/ component.status = "skipped"
    THEN AlreadyProcessed
    ELSE IF ~component.dependenciesReady
    THEN DependenciesNotReady
    ELSE IF \E t \in Range(readMigrationState[1].components)
                       \cup Range(readMigrationState[1].pages) : t.status = "in_progress"
    THEN "Another task is in progress"
    ELSE ""

\* the guards of migrationStart on a component, in the order of the code:
\* the error it yields, "" when the component may start
startComponentError(component) ==
    IF component.status = "done" \/ component.status = "skipped"
    THEN AlreadyProcessed
    ELSE IF ~component.dependenciesReady
    THEN DependenciesNotReady
    ELSE ""

startPageError(page) ==
    IF page.status = "done"
    THEN AlreadyProcessed
    ELSE IF ~page.componentsReady
    THEN ComponentsNotReady
    ELSE ""

\* migrationStart.execute, in a behaviour of at most cap writes
MigrationStartUpTo(cap) ==
    \E id \in Ids(source) :
        LET state == readMigrationState[1]
            data == ensureFigmaData
            now == clock + 1
            component == Get(state.components, id)
            page == Get(state.pages, id)
            InProgress(t) == [t EXCEPT !.status = "in_progress"]
        IN IF readMigrationState = <<>>
           THEN /\ last' = Failure("start", id, NotInitialized)
                /\ UNCHANGED <<source, cachedFigmaData, diskCache, file, clock>>
           ELSE
             /\ cachedFigmaData' = data
             /\ UNCHANGED <<source, diskCache>>
             /\ IF data = <<>>
                THEN /\ last' = Failure("start", id, NoFigmaData)
                     /\ UNCHANGED <<file, clock>>
                ELSE IF Has(state.components, id)
                THEN IF startComponentError(component) # ""
                     THEN /\ last' = [Failure("start", id, startComponentError(component))
                                         EXCEPT !.kind = "component",
                                                !.listed = component.dependencies]
                          /\ UNCHANGED <<file, clock>>
                     ELSE /\ clock < cap
                          /\ file' = writeMigrationState(
                                        SetComponent(state, id, InProgress), now)
                          /\ clock' = now
                          /\ last' = [Success("start", id) EXCEPT
                                         !.kind = "component",
                                         !.listed = component.dependencies]
                ELSE IF Has(state.pages, id)
                THEN IF startPageError(page) # ""
                     THEN /\ last' = [Failure("start", id, startPageError(page))
                                         EXCEPT !.kind = "page"]
                          /\ UNCHANGED <<file, clock>>
                     ELSE /\ clock < cap
                          /\ file' = writeMigrationState(SetPage(state, id, InProgress), now)
                          /\ clock' = now
                          /\ last' = [Success("start", id) EXCEPT !.kind = "page"]
                ELSE /\ last' = Failure("start", id, ItemNotFound)
                     /\ UNCHANGED <<file, clock>>

\* migrationStart marking the component in progress, and saving, before it
\* looks at dependenciesReady
MigrationStartSavesBeforeGuard ==
    \E id \in Ids(source) :
        LET state == readMigrationState[1]
            data == ensureFigmaData
            now == clock + 1
            component == Get(state.components, id)
            page == Get(state.pages, id)
            InProgress(t) == [t EXCEPT !.status = "in_progress"]
        IN IF readMigrationState = <<>>
           THEN /\ last' = Failure("start", id, NotInitialized)
                /\ UNCHANGED <<source, cachedFigmaData, diskCache, file, clock>>
           ELSE
             /\ cachedFigmaData' = data
             /\ UNCHANGED <<source, diskCache>>
             /\ IF data = <<>>
                THEN /\ last' = Failure("start", id, NoFigmaData)
                     /\ UNCHANGED <<file, clock>>
                ELSE IF Has(state.components, id)
                THEN IF startComponentError(component) = AlreadyProcessed
                     THEN /\ last' = [Failure("start", id, AlreadyProcessed)
                                         EXCEPT !.kind = "component",
                                                !.listed = component.dependencies]
                          /\ UNCHANGED <<file, clock>>
                     ELSE /\ clock < MaxClock
                          /\ file' = writeMigrationState(
                                        SetComponent(state, id, InProgress), now)
                          /\ clock' = now
                          /\ last' = [(IF startComponentError(component) # ""
                                       THEN Failure("start", id, startComponentError(component))
                                       ELSE Success("start", id)) EXCEPT
                                         !.kind = "component",
                                         !.listed = component.dependencies]
                ELSE IF Has(state.pages, id)
                THEN IF startPageError(page) # ""
                     THEN /\ last' = [Failure("start", id, startPageError(page))
                                         EXCEPT !.kind = "page"]
                          /\ UNCHANGED <<file, clock>>
                     ELSE /\ clock < MaxClock
                          /\ file' = writeMigrationState(SetPage(state, id, InProgress), now)
                          /\ clock' = now
                          /\ last' = [Success("start", id) EXCEPT !.kind = "page"]
                ELSE /\ last' = Failure("start", id, ItemNotFound)
                     /\ UNCHANGED <<file, clock>>

\* migrationStart.execute
MigrationStart == MigrationStartUpTo(MaxClock)

\* newlyReady reporting every component that was not ready and now is,
\* whatever its status
newlyReadyAnyStatus(before, after) ==
    LET wasNotReady == FigmaIds(Filter(before.components, LAMBDA c : ~c.dependenciesReady))
        Unlocked(c) == c.dependenciesReady /\ Includes(wasNotReady, c.figmaId)
    IN Names(Filter(after.components, Unlocked))

\* newlyReady without the wasNotReady filter: every pending ready component
newlyReadyUnfiltered(before, after) ==
    Names(Filter(after.components, IsReadyComponent))

\* the names migrationComplete / migrationSkip report as newly ready:
\* pending and ready in the state after, among wasNotReady of the state before
newlyReady(before, after) ==
    LET wasNotReady == FigmaIds(Filter(before.components, IsNotReadyComponent))
        Unlocked(c) == c.status = "pending" /\ c.dependenciesReady
                       /\ Includes(wasNotReady, c.figmaId)
    IN Names(Filter(after.components, Unlocked))

\* completeComponent striking the completed id from every dependency list
completeComponentPrunesDependencies(state, id, outputPath, now) ==
    LET Done(c) == [c EXCEPT !.status = "done",
                             !.outputPath = outputPath,
                             !.completedAt = now]
        Pruned(c) == [c EXCEPT !.dependencies = SelectSeq(@, LAMBDA d : d # id)]
        done == SetComponent(state, id, Done)
        pruned == [done EXCEPT !.components =
                      [i \in 1..Len(done.components) |-> Pruned(done.components[i])]]
        ready == updateDependencyReadiness(pruned)
    IN [ready EXCEPT !.stats = computeStats(ready)]

\* completeComponent without the propagator run
completeComponentNoPropagation(state, id, outputPath, now) ==
    LET Done(c) == [c EXCEPT !.status = "done",
                             !.outputPath = outputPath,
                             !.completedAt = now]
        done == SetComponent(state, id, Done)
    IN [done EXCEPT !.stats = computeStats(done)]

\* the component branch of migrationComplete: status, outputPath and
\* completedAt are set whatever the status was
completeComponent(state, id, outputPath, now) ==
    LET Done(c) == [c EXCEPT !.status = "done",
                             !.outputPath = outputPath,
                             !.completedAt = now]
        ready == updateDependencyReadiness(SetComponent(state, id, Done))
    IN [ready EXCEPT !.stats = computeStats(ready)]

\* completePage letting every blocked page through to pending
completePageUnblocksPages(state, id, outputPath, now) ==
    LET Done(p) == [p EXCEPT !.status = "done",
                             !.outputPath = outputPath,
                             !.completedAt = now]
        Unblocked(p) == [p EXCEPT !.status = IF @ = "blocked" THEN "pending" ELSE @]
        done == SetPage(state, id, Done)
        unblocked == [done EXCEPT !.pages =
                         [i \in 1..Len(done.pages) |-> Unblocked(done.pages[i])]]
    IN [unblocked EXCEPT !.stats = computeStats(unblocked)]

\* the page branch of migrationComplete: no propagator run
completePage(state, id, outputPath, now) ==
    LET Done(p) == [p EXCEPT !.status = "done",
                             !.outputPath = outputPath,
                             !.completedAt = now]
        done == SetPage(state, id, Done)
    IN [done EXCEPT !.stats = computeStats(done)]

\* migrationComplete.execute, in a behaviour of at most cap writes
MigrationCompleteUpTo(cap) ==
    \E id \in Ids(source), outputPath \in OutputPaths :
        LET state == readMigrationState[1]
            now == clock + 1
        IN /\ IF readMigrationState = <<>>
              THEN /\ last' = Failure("complete", id, NotInitialized)
                   /\ UNCHANGED <<file, clock>>
              ELSE IF Has(state.components, id)
              THEN LET after == completeComponent(state, id, outputPath, now)
                   IN /\ clock < cap
                      /\ file' = writeMigrationState(after, now)
                      /\ clock' = now
                      /\ last' = [Success("complete", id) EXCEPT
                                     !.kind = "component",
                                     !.newReady = newlyReady(state, after)]
              ELSE IF Has(state.pages, id)
              THEN /\ clock < cap
                   /\ file' = writeMigrationState(
                                 completePage(state, id, outputPath, now), now)
                   /\ clock' = now
                   /\ last' = [Success("complete", id) EXCEPT !.kind = "page"]
              ELSE /\ last' = Failure("complete", id, ItemNotFound)
                   /\ UNCHANGED <<file, clock>>
           /\ UNCHANGED <<source, cachedFigmaData, diskCache>>

\* migrationComplete.execute
MigrationComplete == MigrationCompleteUpTo(MaxClock)

\* skipComponent leaving the stats as they were
skipComponentStaleStats(state, id, reason, now) ==
    LET Skipped(c) == [c EXCEPT !.status = "skipped",
                                !.skipReason = reason,
                                !.completedAt = now]
    IN updateDependencyReadiness(SetComponent(state, id, Skipped))

\* skipComponent without the propagator run
skipComponentNoPropagation(state, id, reason, now) ==
    LET Skipped(c) == [c EXCEPT !.status = "skipped",
                                !.skipReason = reason,
                                !.completedAt = now]
        skipped == SetComponent(state, id, Skipped)
    IN [skipped EXCEPT !.stats = computeStats(skipped)]

\* the component branch of migrationSkip
skipComponent(state, id, reason, now) ==
    LET Skipped(c) == [c EXCEPT !.status = "skipped",
                                !.skipReason = reason,
                                !.completedAt = now]
        ready == updateDependencyReadiness(SetComponent(state, id, Skipped))
    IN [ready EXCEPT !.stats = computeStats(ready)]

\* migrationSkip accepting pages
MigrationSkipAcceptsPages ==
    \E id \in Ids(source), reason \in SkipReasons :
        LET state == readMigrationState[1]
            now == clock + 1
            Skipped(p) == [p EXCEPT !.status = "skipped", !.completedAt = now]
        IN /\ IF readMigrationState = <<>>
              THEN /\ last' = Failure("skip", id, NotInitialized)
                   /\ UNCHANGED <<file, clock>>
              ELSE IF Has(state.components, id)
              THEN LET after == skipComponent(state, id, reason, now)
                   IN /\ clock < MaxClock
                      /\ file' = writeMigrationState(after, now)
                      /\ clock' = now
                      /\ last' = [Success("skip", id) EXCEPT
                                     !.kind = "component",
                                     !.newReady = newlyReady(state, after)]
              ELSE IF Has(state.pages, id)
              THEN /\ clock < MaxClock
                   /\ file' = writeMigrationState(SetPage(state, id, Skipped), now)
                   /\ clock' = now
                   /\ last' = [Success("skip", id) EXCEPT !.kind = "page"]
              ELSE /\ last' = Failure("skip", id, ItemNotFound)
                   /\ UNCHANGED <<file, clock>>
           /\ UNCHANGED <<source, cachedFigmaData, diskCache>>

\* migrationSkip.execute
MigrationSkip ==
    \E id \in Ids(source), reason \in SkipReasons :
        LET state == readMigrationState[1]
            now == clock + 1
        IN /\ IF readMigrationState = <<>>
              THEN /\ last' = Failure("skip", id, NotInitialized)
                   /\ UNCHANGED <<file, clock>>
              ELSE IF Has(state.components, id)
              THEN LET after == skipComponent(state, id, reason, now)
                   IN /\ clock < MaxClock
                      /\ file' = writeMigrationState(after, now)
                      /\ clock' = now
                      /\ last' = [Success("skip", id) EXCEPT
                                     !.kind = "component",
                                     !.newReady = newlyReady(state, after)]
              ELSE IF Has(state.pages, id)
              THEN /\ last' = [Failure("skip", id, InvalidOperation) EXCEPT !.kind = "page"]
                   /\ UNCHANGED <<file, clock>>
              ELSE /\ last' = Failure("skip", id, ItemNotFound)
                   /\ UNCHANGED <<file, clock>>
           /\ UNCHANGED <<source, cachedFigmaData, diskCache>>

Next ==
    \/ Fetch
    \/ Restart
    \/ MigrationInit
    \/ MigrationProgress
    \/ MigrationNext
    \/ MigrationStart
    \/ MigrationComplete
    \/ MigrationSkip

Spec == Init /\ [][Next]_vars

\* ------------------------------------------------------------------------
\* The snapshot caches under a design file that changes between fetches
\* ------------------------------------------------------------------------
\* the design file is edited on the remote side: the next figmaFetch
\* extracts another structure
EditSource ==
    /\ source' \in Snapshots \ {source}
    /\ last' = Response("edit", "", <<>>, "")
    /\ UNCHANGED <<cachedFigmaData, diskCache, file, clock>>

NextCache ==
    \/ EditSource
    \/ Fetch
    \/ Restart
    \/ MigrationInit

SpecCache == Init /\ [][NextCache]_vars

\* ------------------------------------------------------------------------
\* Properties
\* ------------------------------------------------------------------------
Initialized == file # <<>>

Persisted == file[1]

\* id is the key of a component task that is done or skipped
Resolved(state, id) ==
    \E i \in 1..Len(state.components) :
        /\ state.components[i].figmaId = id
        /\ state.components[i].status \in {"done", "skipped"}

AllResolved(state, ids) == \A i \in 1..Len(ids) : Resolved(state, ids[i])

Succeeded(r, op) == r.op = op /\ r.yields = <<"pending", "success">>

\* C1: every component task that is in_progress or done has each of its
\* dependencies done or skipped.
C1_NoComponentBeforeItsDependencies ==
    Initialized =>
        \A c \in Range(Persisted.components) :
            c.status \in {"in_progress", "done"} => AllResolved(Persisted, c.dependencies)

\* C2: every page task that is in_progress or done has each of its
\* componentsUsed done or skipped.
C2_NoPageBeforeItsComponents ==
    Initialized =>
        \A p \in Range(Persisted.pages) :
            p.status \in {"in_progress", "done"} => AllResolved(Persisted, p.componentsUsed)

\* C3: in every persisted state, dependenciesReady of a component is true
\* exactly when each of its dependencies names a done or skipped component.
C3_DependenciesReadyIffResolved ==
    Initialized =>
        \A c \in Range(Persisted.components) :
            c.dependenciesReady <=> AllResolved(Persisted, c.dependencies)

\* a complete or skip has just made a component with dependencies ready
C3_Witness ==
    /\ Initialized
    /\ Succeeded(last, "complete") \/ Succeeded(last, "skip")
    /\ last.kind = "component"
    /\ \E c \in Range(Persisted.components) :
          c.dependencies # <<>> /\ c.dependenciesReady /\ Includes(last.newReady, c.name)

\* C4: in every persisted state, page completions included, componentsReady
\* of a page is true exactly when each of its componentsUsed names a done or
\* skipped component.
C4_ComponentsReadyIffResolved ==
    Initialized =>
        \A p \in Range(Persisted.pages) :
            p.componentsReady <=> AllResolved(Persisted, p.componentsUsed)

\* a page that uses components has just been completed with all of them
\* resolved
C4_Witness ==
    /\ Initialized
    /\ Succeeded(last, "complete")
    /\ last.kind = "page"
    /\ \E p \in Range(Persisted.pages) :
          p.figmaId = last.id /\ p.componentsUsed # <<>> /\ p.componentsReady

\* the names of the components whose dependenciesReady is false in before
\* and true in after
Flipped(before, after) ==
    {after.components[i].name : i \in
        {j \in 1..Len(after.components) :
            ~before.components[j].dependenciesReady
            /\ after.components[j].dependenciesReady}}

C6_DoneAndSkippedAreFinal ==
    [][(file # <<>> /\ file' # <<>>) =>
        \A i \in 1..Len(file[1].components) :
            file[1].components[i].status \in {"done", "skipped"}
                => file'[1].components[i].status = file[1].components[i].status]_vars

\* C7: a component status changes only pending -> in_progress by start,
\* in_progress -> done by complete, or pending -> skipped by skip.
C7_ComponentTransitions ==
    [][(file # <<>> /\ file' # <<>>) =>
        \A i \in 1..Len(file[1].components) :
            LET old == file[1].components[i].status
                new == file'[1].components[i].status
            IN old # new =>
                \/ old = "pending" /\ new = "in_progress" /\ last'.op = "start"
                \/ old = "in_progress" /\ new = "done" /\ last'.op = "complete"
                \/ old = "pending" /\ new = "skipped" /\ last'.op = "skip"]_vars

\* C8: a page status changes only blocked -> pending, pending -> in_progress
\* or in_progress -> done, and never to skipped.
C8_PageTransitions ==
    [][(file # <<>> /\ file' # <<>>) =>
        \A i \in 1..Len(file[1].pages) :
            LET old == file[1].pages[i].status
                new == file'[1].pages[i].status
            IN old # new =>
                \/ old = "blocked" /\ new = "pending"
                \/ old = "pending" /\ new = "in_progress"
                \/ old = "in_progress" /\ new = "done"]_vars

AllComponentsResolved(state) ==
    \A c \in Range(state.components) : c.status \in {"done", "skipped"}

AllPagesDone(state) == \A p \in Range(state.pages) : p.status = "done"

\* C9: the persisted phase is components iff some component is neither done
\* nor skipped, pages iff all components are and some page is not done, done
\* iff all components are and all pages are done.
C9_PhaseMatchesTasks ==
    Initialized =>
        LET phase == Persisted.stats.phase
        IN /\ phase = "components" <=> ~AllComponentsResolved(Persisted)
           /\ phase = "pages" <=> (AllComponentsResolved(Persisted) /\ ~AllPagesDone(Persisted))
           /\ phase = "done" <=> (AllComponentsResolved(Persisted) /\ AllPagesDone(Persisted))

\* the phase is pages because the last unresolved component was skipped,
\* with a page still to do
C9_Witness ==
    /\ Initialized
    /\ Succeeded(last, "skip")
    /\ Persisted.stats.phase = "pages"
    /\ Persisted.components # <<>>
    /\ \E p \in Range(Persisted.pages) : p.status = "blocked" \/ p.status = "pending"

\* C10 as stated: initialize over an existing state file fails with
\* AlreadyInitialized whether or not a source snapshot is available, and
\* leaves the file as it was.
C10_AlwaysAlreadyInitialized ==
    [][(last'.op = "init" /\ file # <<>>) =>
        /\ last'.yields = <<"pending", "error">>
        /\ last'.error = AlreadyInitialized
        /\ file' = file]_vars

\* C10 amended: initialize over an existing state file always fails and
\* leaves the file as it was; the error is AlreadyInitialized when a source
\* snapshot is available from the memory or the disk cache, NoSourceData
\* when none is.
C10_InitOverExistingFileFails ==
    [][(last'.op = "init" /\ file # <<>>) =>
        /\ last'.yields = <<"pending", "error">>
        /\ last'.error = IF cachedFigmaData # <<>> \/ diskCache # <<>>
                         THEN AlreadyInitialized ELSE NoSourceData
        /\ file' = file]_vars

\* initialize has just been refused over an existing state file
C10_Witness ==
    /\ Initialized
    /\ last.op = "init"
    /\ last.error = AlreadyInitialized

\* C11: progress and listReady never change the persisted state file.
C11_ProgressAndListReadyAreReadOnly ==
    [][last'.op \in {"progress", "next"} => file' = file]_vars

\* progress has just reported the task in progress of an existing state
C11_Witness ==
    /\ Initialized
    /\ Succeeded(last, "progress")
    /\ last.currentTask # ""
    /\ Persisted.updatedAt > Persisted.createdAt

ReadinessFlags(state) ==
    [i \in 1..Len(state.components) |-> state.components[i].dependenciesReady]

PageFlagsAndStatuses(state) ==
    [i \in 1..Len(state.pages) |->
        <<state.pages[i].componentsReady, state.pages[i].status>>]

\* C12: from any persisted state and for any component, skip and complete
\* leave the same dependenciesReady flags, the same page flags and statuses,
\* the same phase, and report the same newReady list.
C12_SkipUnlocksAsCompleteDoes ==
    Initialized =>
        \A i \in 1..Len(Persisted.components) :
            \A reason \in SkipReasons, outputPath \in OutputPaths :
                LET id == Persisted.components[i].figmaId
                    skipped == skipComponent(Persisted, id, reason, clock + 1)
                    completed == completeComponent(Persisted, id, outputPath, clock + 1)
                IN /\ ReadinessFlags(skipped) = ReadinessFlags(completed)
                   /\ PageFlagsAndStatuses(skipped) = PageFlagsAndStatuses(completed)
                   /\ skipped.stats.phase = completed.stats.phase
                   /\ newlyReady(Persisted, skipped) = newlyReady(Persisted, completed)

\* a skip has just unlocked a dependent, as completing the same component
\* from the state before would have
C12_Witness ==
    /\ Initialized
    /\ Succeeded(last, "skip")
    /\ last.newReady # <<>>
    /\ \E c \in Range(Persisted.components) : c.status = "skipped" /\ c.figmaId = last.id

\* the dependencies of a component that are not done or skipped
Unresolved(state, c) ==
    {c.dependencies[i] : i \in {j \in 1..Len(c.dependencies) :
                                    ~Resolved(state, c.dependencies[j])}}

\* C13: start on a component whose dependenciesReady is false fails with
\* DependenciesNotReady, leaves its status as it was, and lists exactly the
\* dependencies that are not done or skipped (stated for the case that
\* favours it most: the component is pending and the snapshot is at hand).
C13_StartListsUnresolvedDependencies ==
    [][(/\ last'.op = "start"
        /\ file # <<>>
        /\ ensureFigmaData # <<>>
        /\ Has(file[1].components, last'.id)
        /\ Get(file[1].components, last'.id).status = "pending"
        /\ ~Get(file[1].components, last'.id).dependenciesReady)
       => /\ last'.error = DependenciesNotReady
          /\ file' = file
          /\ Range(last'.listed) = Unresolved(file[1], Get(file[1].components, last'.id))]_vars

\* id is a key of neither task map
Unknown(state, id) == id \notin KeysOf(state.components) \cup KeysOf(state.pages)

ItemIds(items, type) ==
    LET IsOfType(item) == item.type = type
        selected == SelectSeq(items, IsOfType)
    IN [i \in 1..Len(selected) |-> selected[i].id]

\* C15: before the cap, listReady of type component or any lists exactly the
\* pending components with dependenciesReady, once each, by descending
\* instanceCount, equal counts in insertion order.
C15_ReadyComponentsInPriorityOrder ==
    Initialized =>
        \A type \in {"component", "any"} :
            LET ids == ItemIds(nextItems(Persisted, type), "component")
                count(id) == Get(Persisted.components, id).instanceCount
                position(id) == CHOOSE i \in 1..Len(Persisted.components) :
                                    Persisted.components[i].figmaId = id
            IN /\ Range(ids) = {c.figmaId : c \in
                                 {x \in Range(Persisted.components) :
                                     x.status = "pending" /\ x.dependenciesReady}}
               /\ \A i, j \in 1..Len(ids) :
                     i < j => \/ count(ids[i]) > count(ids[j])
                              \/ /\ count(ids[i]) = count(ids[j])
                                 /\ position(ids[i]) < position(ids[j])

\* listReady has just run on a state with two ready components of equal
\* instance count and a component that is no longer pending
C15_Witness ==
    /\ Initialized
    /\ Succeeded(last, "next")
    /\ last.type \in {"component", "any"}
    /\ \E c, d \in Range(Persisted.components) :
          /\ c.figmaId # d.figmaId
          /\ c.instanceCount = d.instanceCount
          /\ IsReadyComponent(c) /\ IsReadyComponent(d)
    /\ \E c \in Range(Persisted.components) : c.status # "pending"

ReadyPageIds(state) ==
    {p.figmaId : p \in {x \in Range(state.pages) :
                            x.status = "pending" /\ x.componentsReady}}

\* C16: listReady of type any lists pages only in phase pages, of type page
\* lists the pending pages with componentsReady in every phase, of type
\* component lists no page.
C16_PagesListedByTypeAndPhase ==
    Initialized =>
        /\ Range(ItemIds(nextItems(Persisted, "any"), "page")) =
              IF Persisted.stats.phase = "pages" THEN ReadyPageIds(Persisted) ELSE {}
        /\ Range(ItemIds(nextItems(Persisted, "page"), "page")) = ReadyPageIds(Persisted)
        /\ ItemIds(nextItems(Persisted, "page"), "component") = <<>>
        /\ ItemIds(nextItems(Persisted, "component"), "page") = <<>>

\* listReady of type page has just listed a ready page while the phase is
\* still components
C16_Witness ==
    /\ Initialized
    /\ Succeeded(last, "next")
    /\ last.type = "page"
    /\ last.phase = "components"
    /\ last.items # <<>>
    /\ ReadyPageIds(Persisted) # {}

\* C17: listReady with limit >= 0 returns the first min(limit, E) of the E
\* eligible items and reports remaining = E - returned.
C17_LimitAndRemaining ==
    [][Succeeded(last', "next") =>
        LET eligible == nextItems(file[1], last'.type)
            E == Len(eligible)
            returned == Len(last'.items)
        IN /\ returned = (IF last'.limit < E THEN last'.limit ELSE E)
           /\ last'.remaining = E - returned
           /\ last'.items = SubSeq(eligible, 1, returned)]_vars

\* listReady has just cut the eligible items at the limit
C17_Witness ==
    /\ Initialized
    /\ Succeeded(last, "next")
    /\ last.limit > 0
    /\ last.items # <<>>
    /\ last.remaining > 0

\* C18: skip on the id of a page task fails with InvalidOperation and leaves
\* the persisted state as it was.
C18_SkipOfPageIsInvalid ==
    [][(/\ last'.op = "skip"
        /\ file # <<>>
        /\ last'.id \in KeysOf(file[1].pages)
        /\ last'.id \notin KeysOf(file[1].components))
       => /\ last'.yields = <<"pending", "error">>
          /\ last'.error = InvalidOperation
          /\ file' = file]_vars

\* skip has just been refused for a page that was ready to start
C18_Witness ==
    /\ Initialized
    /\ last.op = "skip"
    /\ last.error = InvalidOperation
    /\ \E p \in Range(Persisted.pages) : p.figmaId = last.id /\ p.status = "pending"

\* C19: an operation that yields an error response has written nothing: the
\* state file after the call is the file before it.
C19_ErrorsWriteNothing ==
    [][last'.yields = <<"pending", "error">> => file' = file]_vars

\* start has just been refused on a page whose components are not ready
C19_Witness ==
    /\ Initialized
    /\ last.op = "start"
    /\ last.error = ComponentsNotReady
    /\ \E p \in Range(Persisted.pages) : p.figmaId = last.id /\ p.status = "blocked"

\* C20: without a state file, listReady, start, complete, skip and progress
\* fail with NotInitialized and create no file; a file comes into existence
\* only by a successful initialize.
C20_NotInitializedWithoutFile ==
    [][file = <<>> =>
        /\ last'.op \in {"next", "start", "complete", "skip", "progress"}
              => /\ last'.yields = <<"pending", "error">>
                 /\ last'.error = NotInitialized
                 /\ file' = <<>>
        /\ file' # <<>> => Succeeded(last', "init")]_vars

\* complete has just been refused for want of a state file, with the
\* snapshot cached
C20_Witness ==
    /\ ~Initialized
    /\ cachedFigmaData # <<>>
    /\ last.op = "complete"
    /\ last.error = NotInitialized

\* ------------------------------------------------------------------------
\* The dependency builder on any definition tree
\* ------------------------------------------------------------------------
\* an INSTANCE node that has children of its own
InstanceWith(id, componentId, children) ==
    [type |-> "INSTANCE", id |-> id, componentId |-> componentId, children |-> children]

\* nodes without children: a text, instances of the component itself ("A"),
\* of two others and of none, and a null entry of a children array
BottomNodes ==
    {Leaf("TEXT", "n"), Instance("n", "A"), Instance("n", "B"), Instance("n", "C"),
     Instance("n", ""), NullNode}

\* the nodes a definition root may have as children
ChildNodes ==
    BottomNodes
    \cup {Frame("n", <<>>)}
    \cup {Frame("n", <<x>>) : x \in BottomNodes}
    \cup {Frame("n", <<Frame("n", <<Instance("n", "C"), Instance("n", "A")>>)>>),
          InstanceWith("n", "B", <<Instance("n", "C")>>),
          InstanceWith("n", "A", <<Instance("n", "B")>>)}

SeqsUpTo(S, n) == UNION {[1..k -> S] : k \in 0..n}

\* the definitions of component "A": null, or a root of any type over up
\* to MaxWidth children
Definitions ==
    {NullNode}
    \cup {Frame("r", children) : children \in SeqsUpTo(ChildNodes, MaxWidth)}
    \cup {InstanceWith("r", "B", children) : children \in SeqsUpTo(ChildNodes, 1)}

InitBuilder ==
    /\ source \in {[components |-> <<CompData("A", "Icon", 1, definition)>>,
                     frames |-> <<>>] : definition \in Definitions}
    /\ cachedFigmaData = <<>>
    /\ diskCache = <<>>
    /\ file = <<>>
    /\ clock = 0
    /\ last = Response("none", "", <<>>, "")

\* buildComponentDependencies on the one component of the file
Build ==
    /\ last' = [Response("build", source.components[1].id, <<>>, "") EXCEPT
                   !.listed = buildComponentDependencies(source.components[1])]
    /\ UNCHANGED <<source, cachedFigmaData, diskCache, file, clock>>

NextBuilder == Build

SpecBuilder == InitBuilder /\ [][NextBuilder]_vars

\* ------------------------------------------------------------------------
\* formatFigmaDefinition
\* ------------------------------------------------------------------------
\* one line of the text: the number of spaces it starts with, what it
\* says, and the number or id it carries
Line(indent, kind, n, id) == [indent |-> indent, kind |-> kind, n |-> n, id |-> id]

\* "  ".repeat(depth), as a number of spaces
Indent(depth) == 2 * depth

\* lines.join("\n") of the lines pushed, a pushed text of several lines
\* counting for its lines
RECURSIVE Flatten(_)
Flatten(texts) ==
    IF texts = <<>> THEN <<>> ELSE Head(texts) \o Flatten(Tail(texts))

\* formatFigmaDefinition passing depth + 1 to the children
RECURSIVE formatFigmaDefinitionDepthPlusOne(_, _)
formatFigmaDefinitionDepthPlusOne(node, depth) ==
    IF node.type = "NULL" THEN <<Line(0, "null", 0, "")>>
    ELSE LET indent == Indent(depth)
             header == <<Line(indent, "header", 0, node.id)>>
             reference == IF node.type = "INSTANCE" /\ node.componentId # ""
                          THEN <<Line(indent + 2, "componentId", 0, node.componentId)>>
                          ELSE <<>>
             children ==
                 IF Len(node.children) > 0
                 THEN IF depth < 4
                      THEN <<Line(indent + 2, "children", Len(node.children), "")>>
                           \o Flatten([i \in 1..Len(node.children) |->
                                 formatFigmaDefinitionDepthPlusOne(node.children[i], depth + 1)])
                      ELSE <<Line(indent + 2, "truncated", Len(node.children), "")>>
                 ELSE <<>>
         IN header \o reference \o children

\* the lines of formatFigmaDefinition(node, depth), for a node that carries
\* none of the optional style fields
RECURSIVE formatFigmaDefinition(_, _)
formatFigmaDefinition(node, depth) ==
    IF node.type = "NULL" THEN <<Line(0, "null", 0, "")>>
    ELSE LET indent == Indent(depth)
             header == <<Line(indent, "header", 0, node.id)>>
             reference == IF node.type = "INSTANCE" /\ node.componentId # ""
                          THEN <<Line(indent + 2, "componentId", 0, node.componentId)>>
                          ELSE <<>>
             children ==
                 IF Len(node.children) > 0
                 THEN IF depth < 4
                      THEN <<Line(indent + 2, "children", Len(node.children), "")>>
                           \o Flatten([i \in 1..Len(node.children) |->
                                 formatFigmaDefinition(node.children[i], depth + 2)])
                      ELSE <<Line(indent + 2, "truncated", Len(node.children), "")>>
                 ELSE <<>>
         IN header \o reference \o children

\* the nodes handed to the formatter nest up to n levels
RECURSIVE Nested(_)
Nested(n) ==
    LET bottom == {Leaf("TEXT", "t"), Instance("i", "B"), NullNode}
    IN IF n = 0 THEN bottom
       ELSE bottom
            \cup {Frame("f", <<x>>) : x \in Nested(n - 1)}
            \cup {InstanceWith("j", "C", <<Leaf("TEXT", "t"), x>>) : x \in Nested(n - 1)}

InitFormatter ==
    /\ source \in {[components |-> <<CompData("A", "Icon", 1, definition)>>,
                     frames |-> <<>>] : definition \in Nested(4)}
    /\ cachedFigmaData = <<>>
    /\ diskCache = <<>>
    /\ file = <<>>
    /\ clock = 0
    /\ last = Response("none", "", <<>>, "")

\* formatFigmaDefinition(definition, depth); the depth is kept in limit,
\* the lines in items
Format ==
    \E depth \in 0..MaxDepth :
        /\ last' = [Response("format", "", <<>>, "") EXCEPT
                       !.limit = depth,
                       !.items = formatFigmaDefinition(source.components[1].definition, depth)]
        /\ UNCHANGED <<source, cachedFigmaData, diskCache, file, clock>>

NextFormatter == Format

SpecFormatter == InitFormatter /\ [][NextFormatter]_vars

\* ------------------------------------------------------------------------
\* The readiness propagator on any state
\* ------------------------------------------------------------------------
ComponentStatuses == {"pending", "in_progress", "done", "skipped"}

PageStatuses == {"blocked", "pending", "in_progress", "done"}

\* every MigrationState over the tasks of data: each task in any status,
\* each flag either way
AnyState(data) ==
    LET base == createInitialState(data, "unknown", "", 0)
        n == Len(base.components)
        m == Len(base.pages)
    IN {[base EXCEPT
            !.components = [i \in 1..n |->
                               [base.components[i] EXCEPT
                                   !.status = cs[i][1], !.dependenciesReady = cs[i][2]]],
            !.pages = [i \in 1..m |->
                          [base.pages[i] EXCEPT
                              !.status = ps[i][1], !.componentsReady = ps[i][2]]]] :
        cs \in [1..n -> ComponentStatuses \X BOOLEAN],
        ps \in [1..m -> PageStatuses \X BOOLEAN]}

InitPropagator ==
    /\ source \in Snapshots
    /\ cachedFigmaData = <<>>
    /\ diskCache = <<>>
    /\ file \in {<<state>> : state \in AnyState(source)}
    /\ clock = 0
    /\ last = Response("none", "", <<>>, "")

\* updateDependencyReadiness(state)
Propagate ==
    /\ file' = <<updateDependencyReadiness(file[1])>>
    /\ last' = Response("propagate", "", <<>>, "")
    /\ UNCHANGED <<source, cachedFigmaData, diskCache, clock>>

NextPropagator == Propagate

SpecPropagator == InitPropagator /\ [][NextPropagator]_vars

\* ------------------------------------------------------------------------
\* The operations under a state file that cannot be written
\* ------------------------------------------------------------------------
\* the invocation of op on id passes every guard and comes to its
\* `await writeMigrationState(state)`
ReachesWrite(op, id) ==
    LET state == readMigrationState[1]
        data == ensureFigmaData
    IN CASE op = "init" -> id = "" /\ initError(data, readMigrationState) = ""
         [] op = "start" ->
               /\ readMigrationState # <<>>
               /\ data # <<>>
               /\ IF Has(state.components, id)
                  THEN startComponentError(Get(state.components, id)) = ""
                  ELSE Has(state.pages, id) /\ startPageError(Get(state.pages, id)) = ""
         [] op = "complete" ->
               /\ readMigrationState # <<>>
               /\ Has(state.components, id) \/ Has(state.pages, id)
         [] op = "skip" ->
               /\ readMigrationState # <<>>
               /\ Has(state.components, id)

\* fs.writeFile rejects inside writeMigrationState, which no execute wraps
\* in a try: the generator has yielded its pending response and throws; the
\* changes made to the state object in memory are lost with it
WriteThrows ==
    \E op \in {"init", "start", "complete", "skip"}, id \in Ids(source) \cup {""} :
        /\ ReachesWrite(op, id)
        /\ cachedFigmaData' = IF op \in {"init", "start"}
                              THEN ensureFigmaData ELSE cachedFigmaData
        /\ last' = Response(op, id, <<"pending">>, "")
        /\ UNCHANGED <<source, diskCache, file, clock>>

NextIO ==
    \/ Next
    \/ WriteThrows

SpecIO == Init /\ [][NextIO]_vars

\* C21: initialize fails with NoSourceData exactly when neither the memory
\* cache nor the disk cache holds a snapshot; with the memory cache empty,
\* the disk cache holding a snapshot and no migration yet, it succeeds and
\* persists the state built from the snapshot of the disk cache.
C21_NoSourceDataIffNoSnapshot ==
    [][last'.op = "init" =>
        /\ last'.error = NoSourceData <=> (cachedFigmaData = <<>> /\ diskCache = <<>>)
        /\ (cachedFigmaData = <<>> /\ diskCache # <<>> /\ file = <<>>) =>
              /\ Succeeded(last', "init")
              /\ file' = writeMigrationState(
                            createInitialState(diskCache[1], "unknown", "", clock + 1),
                            clock + 1)]_vars

\* initialize has just built the state from a snapshot of the disk cache
\* that is no longer the design file a fetch would extract
C21_Witness ==
    /\ Succeeded(last, "init")
    /\ diskCache # <<>>
    /\ diskCache[1] # source
    /\ cachedFigmaData = diskCache
    /\ Persisted.components # <<>>
    /\ FigmaIds(Persisted.components) =
          [i \in 1..Len(diskCache[1].components) |-> diskCache[1].components[i].id]

\* the latest step was a successful complete or skip of a component
Unlocking(r) ==
    (Succeeded(r, "complete") \/ Succeeded(r, "skip")) /\ r.kind = "component"

\* C22: exactly-once unlocking.  A complete or skip call reports a component
\* in newReady exactly when the component is pending and ready after the
\* call and was not ready before it; no other operation reports anything;
\* and no step ever takes dependenciesReady back from true to false, so that
\* over any sequence of operations a component is reported by at most one
\* call.
C22_UnlockedExactlyOnce ==
    [][(file # <<>> /\ file' # <<>>) =>
        /\ ~Unlocking(last') => last'.newReady = <<>>
        /\ \A i \in 1..Len(file[1].components) :
              LET before == file[1].components[i]
                  after == file'[1].components[i]
              IN /\ before.dependenciesReady => after.dependenciesReady
                 /\ Unlocking(last') =>
                       (Includes(last'.newReady, after.name)
                          <=> /\ ~before.dependenciesReady
                              /\ after.status = "pending"
                              /\ after.dependenciesReady)
                 /\ Len(SelectSeq(last'.newReady, LAMBDA n : n = after.name)) <= 1]_vars

\* the third write or a later one has just unlocked a component with two
\* dependencies, which an earlier call on the other dependency had left
\* unreported
C22_Witness ==
    /\ Initialized
    /\ Unlocking(last)
    /\ Persisted.updatedAt >= 3
    /\ \E c \in Range(Persisted.components) :
          /\ Len(c.dependencies) = 2
          /\ c.status = "pending"
          /\ last.newReady = <<c.name>>

\* the ids a component reaches through one or more dependency edges
RECURSIVE ReachWithin(_, _, _)
ReachWithin(state, ids, steps) ==
    LET direct == UNION {Range(c.dependencies) :
                            c \in {x \in Range(state.components) : x.figmaId \in ids}}
    IN IF steps = 0 THEN {}
       ELSE direct \cup ReachWithin(state, direct, steps - 1)

Reach(state, id) == ReachWithin(state, {id}, Len(state.components))

\* id is on an instantiation cycle of the dependency graph
OnCycle(state, id) == id \in Reach(state, id)

\* the components on a cycle through id
CycleOf(state, id) ==
    {c \in Range(state.components) :
        c.figmaId \in Reach(state, id) /\ id \in Reach(state, c.figmaId)}

\* C23 as stated: in every reachable state no component on an instantiation
\* cycle has dependenciesReady = true.
C23_CycleNeverReady ==
    Initialized =>
        \A c \in Range(Persisted.components) :
            OnCycle(Persisted, c.figmaId) => ~c.dependenciesReady

\* C23 amended: a component on an instantiation cycle has dependenciesReady
\* = true only when some component of its cycle is done or skipped; while
\* every component of the cycle is pending, none of them is ready.
C23_CycleReadyOnlyOnceBroken ==
    Initialized =>
        \A c \in Range(Persisted.components) :
            (OnCycle(Persisted, c.figmaId) /\ c.dependenciesReady) =>
                \E d \in CycleOf(Persisted, c.figmaId) : d.status \in {"done", "skipped"}

\* a component on a cycle has just been started, after the component it
\* depends on was skipped
C23_Witness ==
    /\ Initialized
    /\ Succeeded(last, "start")
    /\ OnCycle(Persisted, last.id)
    /\ Get(Persisted.components, last.id).status = "in_progress"
    /\ \E d \in CycleOf(Persisted, last.id) : d.status = "skipped"

\* C24: every invocation of initialize, progress, listReady, start,
\* complete or skip yields exactly one pending response first and then
\* exactly one terminal response, success or error, and nothing after it.
C24_PendingThenOneTerminal ==
    last.op \in {"init", "progress", "next", "start", "complete", "skip"} =>
        last.yields \in {<<"pending", "success">>, <<"pending", "error">>}

\* the names of the components among the items listReady returns
ListedNames(state, items) ==
    {Get(state.components, id).name : id \in Range(ItemIds(items, "component"))}

\* C25: every component named in the newReady list of a complete or skip is
\* among the items of a listReady of type component that follows at once
\* with a limit of at least the number of eligible items.
C25_NewReadyIsListedNext ==
    Unlocking(last) =>
        LET eligible == nextItems(Persisted, "component")
        IN \A limit \in Len(eligible)..(Len(eligible) + 1) :
              Range(last.newReady) \subseteq ListedNames(Persisted, Slice(eligible, limit))

\* a complete or skip has just unlocked two components at once
C25_Witness ==
    /\ Initialized
    /\ Unlocking(last)
    /\ Len(last.newReady) = 2
    /\ Len(nextItems(Persisted, "component")) >= 2

\* C26: in every persisted state no page is blocked with componentsReady
\* true and none is pending with componentsReady false; a page goes from
\* blocked to pending only in the operation that turns its componentsReady
\* from false to true, and a blocked page whose componentsReady turns true
\* is pending after that operation (a page created with nothing to wait for
\* is pending from initialize on).
C26_BlockedUntilComponentsReady ==
    [][file' # <<>> =>
        \A i \in 1..Len(file'[1].pages) :
            LET new == file'[1].pages[i]
            IN /\ ~(new.status = "blocked" /\ new.componentsReady)
               /\ ~(new.status = "pending" /\ ~new.componentsReady)
               /\ file # <<>> =>
                     LET old == file[1].pages[i]
                         turned == ~old.componentsReady /\ new.componentsReady
                     IN /\ (old.status = "blocked" /\ new.status = "pending") => turned
                        /\ (old.status = "blocked" /\ turned) => new.status = "pending"
               /\ file = <<>> => new.status = IF new.componentsReady
                                              THEN "pending" ELSE "blocked"]_vars

\* the last of the components a page uses has just been completed or
\* skipped and the page, blocked until then, is pending
C26_Witness ==
    /\ Initialized
    /\ Unlocking(last)
    /\ \E p \in Range(Persisted.pages) :
          /\ p.status = "pending"
          /\ p.componentsReady
          /\ Includes(p.componentsUsed, last.id)
          /\ Len(p.componentsUsed) = 2

\* C27: the readiness propagator is idempotent: on any state, applying it to
\* its own result changes nothing.
C27_PropagatorIdempotent ==
    [][last'.op = "propagate" =>
        updateDependencyReadiness(file'[1]) = file'[1]]_vars

\* the propagator has just run on a state it had to change: a flag was
\* stale and a blocked page was promoted
C27_Witness ==
    /\ last.op = "propagate"
    /\ \E c \in Range(Persisted.components) : c.dependencies # <<>> /\ c.dependenciesReady
    /\ \E c, d \in Range(Persisted.components) : c.status = "done" /\ d.status = "skipped"
    /\ \E p \in Range(Persisted.pages) :
          p.componentsUsed # <<>> /\ p.status = "pending" /\ p.componentsReady

\* C28: a propagator run changes no component status and changes a page
\* status only from blocked to pending; a task that is in_progress, done or
\* skipped keeps its status.
C28_PropagatorStatusFrame ==
    [][last'.op = "propagate" =>
        /\ \A i \in 1..Len(file[1].components) :
              file'[1].components[i].status = file[1].components[i].status
        /\ \A i \in 1..Len(file[1].pages) :
              LET old == file[1].pages[i].status
                  new == file'[1].pages[i].status
              IN /\ old # new => (old = "blocked" /\ new = "pending")
                 /\ old \in {"in_progress", "done", "skipped"} => new = old]_vars

\* the propagator has just run on a state with a page in progress whose
\* components are not all resolved and a component in progress whose
\* dependencies are not
C28_Witness ==
    /\ last.op = "propagate"
    /\ \E p \in Range(Persisted.pages) : p.status = "in_progress" /\ ~p.componentsReady
    /\ \E c \in Range(Persisted.components) : c.status = "in_progress" /\ ~c.dependenciesReady

\* C29: right after a successful initialize every component is pending with
\* dependenciesReady true exactly when it has no dependency, every page
\* that uses components is blocked with componentsReady false, every page
\* that uses none is pending with componentsReady true, and the counts of
\* done components, skipped components and completed pages are zero.
C29_StateAfterInitialize ==
    [][Succeeded(last', "init") =>
        /\ file' # <<>>
        /\ \A c \in Range(file'[1].components) :
              /\ c.status = "pending"
              /\ c.dependenciesReady <=> c.dependencies = <<>>
        /\ \A p \in Range(file'[1].pages) :
              IF p.componentsUsed # <<>>
              THEN p.status = "blocked" /\ ~p.componentsReady
              ELSE p.status = "pending" /\ p.componentsReady
        /\ file'[1].stats.completedComponents = 0
        /\ file'[1].stats.skippedComponents = 0
        /\ file'[1].stats.completedPages = 0]_vars

\* initialize has just built a state with a component that waits for a
\* dependency, a page that waits for a component and a page that waits for
\* nothing
C29_Witness ==
    /\ Succeeded(last, "init")
    /\ Initialized
    /\ \E c \in Range(Persisted.components) : ~c.dependenciesReady
    /\ \E p, q \in Range(Persisted.pages) :
          /\ p.status = "blocked" /\ p.componentsUsed # <<>>
          /\ q.status = "pending" /\ q.componentsUsed = <<>>

\* the component ids carried by INSTANCE nodes at any depth below node
RECURSIVE InstanceIdsBelow(_)
InstanceIdsBelow(node) ==
    UNION {(IF node.children[i].type = "INSTANCE" /\ node.children[i].componentId # ""
            THEN {node.children[i].componentId} ELSE {})
           \cup InstanceIdsBelow(node.children[i]) : i \in 1..Len(node.children)}

\* C30: the dependency builder yields for a component exactly the distinct
\* component ids carried by INSTANCE nodes at any depth below its
\* definition root, without the component's own id; a null definition or a
\* root without children yields nothing.
C30_DependenciesAreInstancesBelowRoot ==
    [][last'.op = "build" =>
        LET component == source.components[1]
            deps == last'.listed
        IN /\ Range(deps) = InstanceIdsBelow(component.definition) \ {component.id}
           /\ \A i, j \in 1..Len(deps) : i # j => deps[i] # deps[j]
           /\ component.id \notin Range(deps)
           /\ (component.definition = NullNode \/ component.definition.children = <<>>)
                 => deps = <<>>]_vars

\* the builder has just found two dependencies of a component that also
\* instantiates itself, one of them below a child of the root only
C30_Witness ==
    /\ last.op = "build"
    /\ Len(last.listed) = 2
    /\ last.id \in InstanceIdsBelow(source.components[1].definition)
    /\ \E d \in Range(last.listed) :
          \A i \in 1..Len(source.components[1].definition.children) :
              source.components[1].definition.children[i].componentId # d

\* C31: once the state exists, no operation changes the component ids, the
\* page ids, the dependencies of a component or the componentsUsed of a
\* page.
C31_GraphIsImmutable ==
    [][(file # <<>> /\ file' # <<>>) =>
        /\ FigmaIds(file'[1].components) = FigmaIds(file[1].components)
        /\ FigmaIds(file'[1].pages) = FigmaIds(file[1].pages)
        /\ \A i \in 1..Len(file[1].components) :
              file'[1].components[i].dependencies = file[1].components[i].dependencies
        /\ \A i \in 1..Len(file[1].pages) :
              file'[1].pages[i].componentsUsed = file[1].pages[i].componentsUsed]_vars

\* a component has just been started whose dependencies, all completed
\* before, are still listed
C31_Witness ==
    /\ Initialized
    /\ Succeeded(last, "start")
    /\ last.kind = "component"
    /\ last.listed # <<>>
    /\ Get(Persisted.components, last.id).dependencies = last.listed
    /\ \A i \in 1..Len(last.listed) :
          Get(Persisted.components, last.listed[i]).status = "done"

\* C32: complete on a page changes that page's status, outputPath and
\* completedAt, the stats and updatedAt, and nothing else: no component
\* task, no other page task; its newReady is empty.
C32_PageCompleteFrame ==
    [][(Succeeded(last', "complete") /\ last'.kind = "page") =>
        /\ file'[1].components = file[1].components
        /\ \A i \in 1..Len(file[1].pages) :
              LET old == file[1].pages[i]
                  new == file'[1].pages[i]
              IN IF old.figmaId = last'.id
                 THEN /\ new.status = "done"
                      /\ new = [old EXCEPT !.status = new.status,
                                           !.outputPath = new.outputPath,
                                           !.completedAt = new.completedAt]
                 ELSE new = old
        /\ Len(file'[1].pages) = Len(file[1].pages)
        /\ file'[1] = [file[1] EXCEPT !.pages = file'[1].pages,
                                      !.stats = file'[1].stats,
                                      !.updatedAt = file'[1].updatedAt]
        /\ last'.newReady = <<>>]_vars

\* a page has just been completed next to a page that is still blocked
C32_Witness ==
    /\ Initialized
    /\ Succeeded(last, "complete")
    /\ last.kind = "page"
    /\ Get(Persisted.pages, last.id).status = "done"
    /\ \E p \in Range(Persisted.pages) : p.figmaId # last.id /\ p.status = "blocked"

\* the tasks of state that are in progress
InProgressIds(state) ==
    {t.figmaId : t \in {x \in Range(state.components) \cup Range(state.pages) :
                            x.status = "in_progress"}}

\* C33: start enforces no single task in progress: with the snapshot at
\* hand, start on a pending ready component succeeds and marks it in
\* progress also while another component or page is in progress, so that
\* states with two tasks in progress are reached.
C33_StartWhileAnotherInProgress ==
    [][(/\ last'.op = "start"
        /\ file # <<>>
        /\ ensureFigmaData # <<>>
        /\ Has(file[1].components, last'.id)
        /\ IsReadyComponent(Get(file[1].components, last'.id))
        /\ InProgressIds(file[1]) # {})
       => /\ Succeeded(last', "start")
          /\ InProgressIds(file'[1]) = InProgressIds(file[1]) \cup {last'.id}]_vars

\* a component has just been started while another task was in progress:
\* two tasks are in progress
C33_Witness ==
    /\ Initialized
    /\ Succeeded(last, "start")
    /\ last.kind = "component"
    /\ last.id \in InProgressIds(Persisted)
    /\ Cardinality(InProgressIds(Persisted)) >= 2

\* what the text of the latest format is held to: the header of a child
\* starts `deeper` spaces further in than the header of its parent, children
\* are expanded while the depth counter is below 4 and counted beyond, and
\* null reads "null"
FormatterContract(deeper) ==
    last.op = "format" =>
        LET node == source.components[1].definition
            depth == last.limit
            out == last.items
            n == Len(node.children)
            head == IF node.type = "INSTANCE" /\ node.componentId # "" THEN 2 ELSE 1
            IsHeader(line) == line.kind = "header"
        IN IF node.type = "NULL"
           THEN out = <<Line(0, "null", 0, "")>>
           ELSE /\ out[1] = Line(2 * depth, "header", 0, node.id)
                /\ IF n = 0
                   THEN Len(out) = head
                   ELSE IF depth < 4
                   THEN /\ out[head + 1] = Line(2 * depth + 2, "children", n, "")
                        /\ SubSeq(out, head + 2, Len(out)) =
                              Flatten([i \in 1..n |->
                                  formatFigmaDefinition(node.children[i], depth + 2)])
                        /\ \A i \in 1..n :
                              node.children[i].type # "NULL" =>
                                  formatFigmaDefinition(node.children[i], depth + 2)[1]
                                      = Line(2 * depth + deeper, "header", 0,
                                             node.children[i].id)
                   ELSE /\ Len(out) = head + 1
                        /\ out[head + 1] = Line(2 * depth + 2, "truncated", n, "")
                        /\ Len(SelectSeq(out, IsHeader)) = 1

\* C34 as stated: the header of each child is indented two spaces deeper
\* than the header of its parent; children are expanded only while the
\* depth counter is below 4, a node at depth 4 or more gets one line with
\* the number of its children instead; a null node reads "null".
C34_ChildTwoSpacesDeeper == FormatterContract(2)

\* C34 amended: each child is formatted with the depth counter raised by
\* 2, which puts its header four spaces deeper than the header of its
\* parent (two deeper than the parent's "children (n):" line); expansion,
\* truncation and null as stated.
C34_ChildTwoLevelsDeeper == FormatterContract(4)

\* a node with children has just been formatted at depth 2: its children
\* are expanded, theirs are counted only
C34_Witness ==
    /\ last.op = "format"
    /\ last.limit = 2
    /\ \E i \in 1..Len(last.items) : last.items[i].kind = "children"
    /\ \E i \in 1..Len(last.items) :
          last.items[i].kind = "truncated" /\ last.items[i].indent = 2 * 4 + 2
    /\ \E i \in 1..Len(last.items) :
          last.items[i].kind = "componentId" /\ last.items[i].indent = 2 * 4 + 2

\* C35: in every persisted state the stats are computeStats of the
\* persisted components and pages, also after start, which writes the state
\* without recomputing them.
C35_StatsMatchTasks ==
    Initialized => Persisted.stats = computeStats(Persisted)

\* start has just written a state in which a component is done, another is
\* in progress and the stats were not recomputed
C35_Witness ==
    /\ Initialized
    /\ Succeeded(last, "start")
    /\ Persisted.stats.completedComponents + Persisted.stats.skippedComponents > 0
    /\ Get(Persisted.components \o Persisted.pages, last.id).status = "in_progress"

\* components, pages, done: 1, 2, 3
PhaseRank(phase) ==
    CASE phase = "components" -> 1 [] phase = "pages" -> 2 [] phase = "done" -> 3

\* C36: under sequential operation the set of done or skipped components
\* never shrinks, a dependenciesReady or componentsReady flag that is true
\* never becomes false, and the phase never moves backwards.
C36_ProgressIsMonotone ==
    [][(file # <<>> /\ file' # <<>>) =>
        /\ doneOrSkipped(file[1]) \subseteq doneOrSkipped(file'[1])
        /\ \A i \in 1..Len(file[1].components) :
              file[1].components[i].dependenciesReady
                  => file'[1].components[i].dependenciesReady
        /\ \A i \in 1..Len(file[1].pages) :
              file[1].pages[i].componentsReady => file'[1].pages[i].componentsReady
        /\ PhaseRank(file[1].stats.phase) <= PhaseRank(file'[1].stats.phase)]_vars

\* a component that was done has just been skipped: it still counts and
\* its dependent is still ready
C36_Witness ==
    /\ Initialized
    /\ Succeeded(last, "skip")
    /\ Persisted.updatedAt >= 3
    /\ Get(Persisted.components, last.id).outputPath # ""
    /\ last.newReady = <<>>
    /\ \E c \in Range(Persisted.components) :
          Includes(c.dependencies, last.id) /\ c.dependenciesReady

\* the ids listReady returns for some type filter, before the cap
ListedIds(state) ==
    UNION {{nextItems(state, type)[i].id : i \in 1..Len(nextItems(state, type))} :
              type \in NextTypes}

\* C37: with the snapshot at hand, start on an id that listReady returns
\* (for any type filter) succeeds and sets that task, and no other, to
\* in_progress.
C37_ListedItemsCanStart ==
    [][(/\ last'.op = "start"
        /\ file # <<>>
        /\ ensureFigmaData # <<>>
        /\ last'.id \in ListedIds(file[1]))
       => /\ Succeeded(last', "start")
          /\ InProgressIds(file'[1]) = InProgressIds(file[1]) \cup {last'.id}
          /\ \A i \in 1..Len(file[1].components) :
                file[1].components[i].figmaId # last'.id
                    => file'[1].components[i] = file[1].components[i]
          /\ \A i \in 1..Len(file[1].pages) :
                file[1].pages[i].figmaId # last'.id
                    => file'[1].pages[i] = file[1].pages[i]]_vars

\* a page that listReady returned, its one component skipped, has just
\* been started
C37_Witness ==
    /\ Initialized
    /\ Succeeded(last, "start")
    /\ last.kind = "page"
    /\ InProgressIds(Persisted) = {last.id}
    /\ Len(Get(Persisted.pages, last.id).componentsUsed) = 1
    /\ \E c \in Range(Persisted.components) : c.status = "skipped"

\* ------------------------------------------------------------------------
\* The caller's loop: list the ready items, start one, complete it
\* ------------------------------------------------------------------------
\* the dependency graph of state has no cycle and every dependency and
\* every componentsUsed id names a component task
AcyclicAndClosed(state) ==
    /\ \A c \in Range(state.components) :
          /\ ~OnCycle(state, c.figmaId)
          /\ Range(c.dependencies) \subseteq KeysOf(state.components)
    /\ \A p \in Range(state.pages) :
          Range(p.componentsUsed) \subseteq KeysOf(state.components)

\* the type filter that matches the phase
PhaseType(state) == IF state.stats.phase = "components" THEN "component" ELSE "page"

\* the ids listReady returns for the type that matches the phase
ListedForPhase(state) ==
    LET items == nextItems(state, PhaseType(state))
    IN {items[i].id : i \in 1..Len(items)}

\* the file has been fetched and the migration initialized
InitWorkflow ==
    /\ source \in {data \in Snapshots :
                      AcyclicAndClosed(createInitialState(data, "unknown", "", 1))}
    /\ cachedFigmaData = <<source>>
    /\ diskCache = <<source>>
    /\ file = writeMigrationState(createInitialState(source, "unknown", "", 1), 1)
    /\ clock = 1
    /\ last = LET readyComponents ==
                      sortByInstanceCount(Filter(file[1].components, IsReadyComponent))
              IN [Success("init", "") EXCEPT
                     !.items = Names(Slice(readyComponents, 5)),
                     !.remaining = Len(readyComponents)]

\* the caller starts an item that listReady returns
StartListed ==
    /\ MigrationStartUpTo(MaxSteps)
    /\ last'.id \in ListedForPhase(file[1])

\* the caller completes a task it has started
CompleteStarted ==
    /\ MigrationCompleteUpTo(MaxSteps)
    /\ last'.id \in InProgressIds(file[1])

NextWorkflow ==
    \/ MigrationNext
    \/ StartListed
    \/ CompleteStarted

SpecWorkflow ==
    /\ InitWorkflow
    /\ [][NextWorkflow]_vars
    /\ WF_vars(StartListed)
    /\ WF_vars(CompleteStarted)

\* with an acyclic, closed graph and the phase not yet done, some task is
\* in progress or listed for the phase
NoDeadlock ==
    (Initialized /\ AcyclicAndClosed(Persisted) /\ Persisted.stats.phase # "done") =>
        InProgressIds(Persisted) \cup ListedForPhase(Persisted) # {}

DanglingComponents(state) ==
    {c \in Range(state.components) :
        ~(Range(c.dependencies) \subseteq KeysOf(state.components))}

\* the pages of state that use an id that names no component task
DanglingPages(state) ==
    {p \in Range(state.pages) :
        ~(Range(p.componentsUsed) \subseteq KeysOf(state.components))}

\* C39: a component with a dependency that is no key of the component map
\* never has dependenciesReady = true; a page whose componentsUsed has
\* such an id never has componentsReady = true, is never pending, and
\* leaves blocked only when migrationComplete is called on it.
C39_DanglingNeverReady ==
    /\ [](Initialized =>
            /\ \A c \in DanglingComponents(Persisted) : ~c.dependenciesReady
            /\ \A p \in DanglingPages(Persisted) :
                  ~p.componentsReady /\ p.status # "pending")
    /\ [][(Initialized /\ Initialized') =>
            \A p \in DanglingPages(Persisted) :
                (p.status = "blocked"
                 /\ Has(Persisted'.pages, p.figmaId)
                 /\ Get(Persisted'.pages, p.figmaId).status # "blocked")
                    => (last'.op = "complete" /\ last'.id = p.figmaId)]_vars

\* every component of the file is processed and the page that uses an
\* unknown id is still blocked
C39_Witness ==
    /\ Initialized
    /\ last.op = "complete"
    /\ \E c \in DanglingComponents(Persisted) : c.status = "done" /\ ~c.dependenciesReady
    /\ \E p \in DanglingPages(Persisted) : p.status = "blocked" /\ ~p.componentsReady
    /\ \E q \in Range(Persisted.pages) : q.status = "pending" /\ q.componentsReady

\* ------------------------------------------------------------------------
\* Two invocations of migrationComplete in flight at once
\* ------------------------------------------------------------------------
\* Each invocation awaits readMigrationState, works on the object it got
\* and awaits writeMigrationState; another invocation can run between the
\* two awaits. In this specification `last` holds, for each of the two
\* invocations, its position (pc), its arguments, the state it loaded and
\* what it has yielded.
Calls == {1, 2}

Idle == [pc |-> "idle", id |-> "", outputPath |-> "", state |-> <<>>,
         yields |-> <<>>, error |-> ""]

InitOverlap ==
    /\ source \in Snapshots
    /\ cachedFigmaData = <<source>>
    /\ diskCache = <<source>>
    /\ file = writeMigrationState(createInitialState(source, "unknown", "", 1), 1)
    /\ clock = 1
    /\ last = [c \in Calls |-> Idle]

\* an invocation begins, yields pending and gets the result of
\* readMigrationState
LoadState(c) ==
    /\ last[c].pc = "idle"
    /\ clock < MaxClock
    /\ \E id \in Ids(source), outputPath \in OutputPaths :
          last' = [last EXCEPT ![c] =
                      [pc |-> "loaded", id |-> id, outputPath |-> outputPath,
                       state |-> readMigrationState,
                       yields |-> <<"pending">>, error |-> ""]]
    /\ UNCHANGED <<source, cachedFigmaData, diskCache, file, clock>>

\* the invocation changes the state it loaded, writes it over the file and
\* yields its result
PersistState(c) ==
    /\ last[c].pc = "loaded"
    /\ LET id == last[c].id
           state == last[c].state[1]
           now == clock + 1
           Returned(status, error) ==
               [last EXCEPT ![c].pc = "returned",
                            ![c].yields = <<"pending", status>>,
                            ![c].error = error]
       IN IF last[c].state = <<>>
          THEN /\ last' = Returned("error", NotInitialized)
               /\ UNCHANGED <<file, clock>>
          ELSE IF Has(state.components, id)
          THEN /\ file' = writeMigrationState(
                             completeComponent(state, id, last[c].outputPath, now), now)
               /\ clock' = now
               /\ last' = Returned("success", "")
          ELSE IF Has(state.pages, id)
          THEN /\ file' = writeMigrationState(
                             completePage(state, id, last[c].outputPath, now), now)
               /\ clock' = now
               /\ last' = Returned("success", "")
          ELSE /\ last' = Returned("error", ItemNotFound)
               /\ UNCHANGED <<file, clock>>
    /\ UNCHANGED <<source, cachedFigmaData, diskCache>>

NextOverlap ==
    \/ \E c \in Calls : LoadState(c)
    \/ \E c \in Calls : PersistState(c)

SpecOverlap == InitOverlap /\ [][NextOverlap]_vars

\* both invocations have returned success for distinct components, and
\* both had loaded the same version of the file
Overlapped ==
    /\ \A c \in Calls : last[c].pc = "returned" /\ last[c].yields = <<"pending", "success">>
    /\ last[1].id # last[2].id
    /\ last[1].state = last[2].state
    /\ \A c \in Calls : Has(last[c].state[1].components, last[c].id)

\* C40: when complete(A) and complete(B) on distinct components each load
\* the state file before either persists, the persisted state has A and B
\* done and its readiness flags agree with both completions.
C40_NoLostUpdate ==
    Overlapped =>
        /\ \A c \in Calls : Get(Persisted.components, last[c].id).status = "done"
        /\ Persisted.components = updateDependencyReadiness(Persisted).components
        /\ Persisted.pages = updateDependencyReadiness(Persisted).pages

====
